---- MODULE Spec2Model ----
(***************************************************************************)
(* Halo-model matter power spectrum (src/src/ccl_halomod.c).               *)
(*                                                                         *)
(* Doubles are modelled as exact rationals <<n, d>> (d > 0, lowest terms)  *)
(* extended with the IEEE specials NaN = <<0,0>>, +inf = <<1,0>> and       *)
(* -inf = <<-1,0>>.  Rounding is not modelled; NaN/inf propagation is.     *)
(* Transcendental library calls (pow with real exponents, sin, Si, Ci,     *)
(* log) and the collaborators of other translation units are deterministic *)
(* tables of their arguments.                                              *)
(***************************************************************************)
EXTENDS Integers, Sequences, FiniteSets, TLC

\* ------------------------------------------------------------------------
\* Bounds of the model
\* ------------------------------------------------------------------------
\* Subdivision limit handed to gsl_integration_qag (stands for HM_LIMIT).
Limit == 2

\* ------------------------------------------------------------------------
\* double arithmetic
\* ------------------------------------------------------------------------
NaN == <<0, 0>>
PInf == <<1, 0>>
NInf == <<-1, 0>>

Abs(n) == IF n < 0 THEN -n ELSE n

Sign(n) == IF n > 0 THEN 1 ELSE IF n < 0 THEN -1 ELSE 0

RECURSIVE GCD(_, _)
GCD(x, y) == IF y = 0 THEN x ELSE GCD(y, x % y)

\* The double n/d.
R(n, d) ==
  IF d = 0 THEN <<Sign(n), 0>>
  ELSE LET g == GCD(Abs(n), Abs(d))
           s == IF d < 0 THEN -1 ELSE 1
       IN  <<(s * n) \div g, (s * d) \div g>>

Zero == R(0, 1)
One == R(1, 1)

IsNaN(x) == x = NaN
IsInf(x) == x[2] = 0 /\ x[1] # 0
IsFinite(x) == x[2] # 0

\* C's x != y on doubles: true whenever either side is NaN.
FNe(x, y) == IsNaN(x) \/ IsNaN(y) \/ x # y

Neg(x) == <<-x[1], x[2]>>

Add(x, y) ==
  IF IsNaN(x) \/ IsNaN(y) THEN NaN
  ELSE IF IsInf(x) THEN (IF IsInf(y) /\ y # x THEN NaN ELSE x)
  ELSE IF IsInf(y) THEN y
  ELSE LET g == GCD(x[2], y[2])
       IN  R(x[1] * (y[2] \div g) + y[1] * (x[2] \div g), (x[2] \div g) * y[2])

Sub(x, y) == Add(x, Neg(y))

Mul(x, y) ==
  IF IsNaN(x) \/ IsNaN(y) THEN NaN
  ELSE IF IsInf(x) \/ IsInf(y)
       THEN <<Sign(x[1]) * Sign(y[1]), 0>>
  ELSE LET g1 == GCD(Abs(x[1]), y[2])
           g2 == GCD(Abs(y[1]), x[2])
       IN  R((x[1] \div g1) * (y[1] \div g2), (x[2] \div g2) * (y[2] \div g1))

\* 1/x; signed zeros are not modelled, 1/0 is +inf.
Inv(x) ==
  IF IsNaN(x) THEN NaN
  ELSE IF IsInf(x) THEN Zero
  ELSE IF x[1] = 0 THEN PInf
  ELSE R(x[2], x[1])

Div(x, y) == Mul(x, Inv(y))

Sq(x) == Mul(x, x)

\* x <= y on finite doubles.
FLe(x, y) == IsFinite(x) /\ IsFinite(y) /\ x[1] * y[2] <= y[1] * x[2]

RECURSIVE Pow10(_)
Pow10(e) == IF e = 0 THEN 1 ELSE 10 * Pow10(e - 1)

\* log10 of an exact power of ten, as an exponent.
RECURSIVE Log10(_)
Log10(n) == IF n <= 1 THEN 0 ELSE 1 + Log10(n \div 10)

\* ------------------------------------------------------------------------
\* Status codes, messages, labels
\* ------------------------------------------------------------------------
NoError == "0"
CCL_ERROR_CONC_DV == "CCL_ERROR_CONC_DV"
CCL_ERROR_HALOCONC == "CCL_ERROR_HALOCONC"
CCL_ERROR_HALOWIN == "CCL_ERROR_HALOWIN"
CCL_ERROR_ONE_HALO_INT == "CCL_ERROR_ONE_HALO_INT"
CCL_ERROR_TWO_HALO_INT == "CCL_ERROR_TWO_HALO_INT"
\* Codes raised by collaborators of other translation units.
CCL_ERROR_MF == "CCL_ERROR_MF"
CCL_ERROR_DV == "CCL_ERROR_DV"

MsgNone == ""
MsgBhattacharya == "halo_concentration(): Bhattacharya (2011) concentration relation only valid for Delta_v = 200"
MsgDuffy == "halo_concentration(): Duffy (2008) virial concentration called with non-virial Delta_v"
MsgOneHalo == "one_halo_integral(): Integration failure"
MsgTwoHalo == "two_halo_integral(): Integration failure"

ccl_bhattacharya2011 == "ccl_bhattacharya2011"
ccl_duffy2008_virial == "ccl_duffy2008_virial"
ccl_constant_concentration == "ccl_constant_concentration"
ccl_nfw == "ccl_nfw"
\* A selector value outside the enumerations.
BadLabel == "bad_label"

ConcLabels == {ccl_bhattacharya2011, ccl_duffy2008_virial, ccl_constant_concentration, BadLabel}

\* ------------------------------------------------------------------------
\* Inputs
\* ------------------------------------------------------------------------
ScaleFactors == {R(1, 1), R(1, 2)}
Wavenumbers == {R(0, 1), R(4, 1)}
Overdensities == {R(200, 1), R(178, 1), R(150, 1), NaN}

\* Behaviour of the collaborators: "none" is a healthy cosmology; the others
\* are one misbehaving collaborator: the mass function returning +inf
\* ("mf_inf"), raising an error on its status argument with a density
\* ("mf_err") or with NaN ("mf_nan"); the virial overdensity raising an error
\* and returning NaN, with a mass function and bias that depend on the
\* overdensity ("dv_nan") or that do not use it ("dv_nan_mf_free").
Faults == {"none", "mf_inf", "mf_err", "mf_nan", "dv_nan", "dv_nan_mf_free"}

\* Integration range [HM_MMIN, HM_MMAX] in model mass units: Limit decades.
HM_MMIN == R(1, 1)
HM_MMAX == R(Pow10(Limit), 1)

\* ------------------------------------------------------------------------
\* Collaborators (other translation units): deterministic functions of their
\* arguments and of the cosmology; result is [val, err], err the code the
\* collaborator writes to *status (NoError: status untouched).
\* ------------------------------------------------------------------------
Raise(st, err) == IF err = NoError THEN st ELSE err

RaiseLog(err, who) == IF err = NoError THEN {} ELSE {<<"raise", who, err>>}

Dv_BryanNorman(cos, a) ==
  IF cos.fault \in {"dv_nan", "dv_nan_mf_free"}
  THEN [val |-> NaN, err |-> CCL_ERROR_DV]
  ELSE [val |-> IF a = One THEN R(178, 1) ELSE R(150, 1), err |-> NoError]

r_delta(cos, halomass, a, odelta) ==
  [val |-> IF IsNaN(odelta) \/ ~IsFinite(halomass) THEN NaN
           ELSE R(Log10(halomass[1]) + 1, 1),
   err |-> NoError]

ccl_rho_x(cos, a, is_comoving) ==
  [val |-> IF a = One \/ ~cos.rhoVaries THEN R(2, 1) ELSE R(4, 1), err |-> NoError]

ccl_massfunc(cos, halomass, a, odelta) ==
  LET v == IF IsNaN(odelta) /\ cos.fault # "dv_nan_mf_free" THEN NaN
           ELSE Inv(Mul(R(4, 1), halomass))
  IN  CASE cos.fault = "mf_inf" -> [val |-> PInf, err |-> NoError]
        [] cos.fault = "mf_err" -> [val |-> v, err |-> CCL_ERROR_MF]
        [] cos.fault = "mf_nan" -> [val |-> NaN, err |-> CCL_ERROR_MF]
        [] OTHER -> [val |-> v, err |-> NoError]

ccl_halo_bias(cos, halomass, a, odelta) ==
  [val |-> IF IsNaN(odelta) /\ cos.fault # "dv_nan_mf_free" THEN NaN
           ELSE IF FLe(halomass, R(10, 1)) THEN One ELSE R(2, 1),
   err |-> NoError]

ccl_linear_matter_power(cos, k, a) ==
  [val |-> Mul(IF k = Zero THEN R(3, 1) ELSE R(2, 1), Sq(a)), err |-> NoError]

ccl_growth_factor(cos, a) == [val |-> a, err |-> NoError]

ccl_sigmaM(cos, halomass, a) == [val |-> Mul(a, Inv(Add(One, halomass))), err |-> NoError]

\* libm pow(x, y) for the non-integer exponents of the fits: a table that keeps
\* pow's NaN propagation and its direction of monotonicity in x.
pow(x, y) == IF IsNaN(x) \/ IsNaN(y) THEN NaN
             ELSE IF y[1] < 0 THEN Inv(x) ELSE x

\* The closed NFW form (f1+f2-f3)/fc of u_nfw_c as a function of c and ks:
\* NaN where the C expression is (c or ks NaN; ks = 0, where f3 is 0/0 and
\* Ci(0) diverges), otherwise a table decreasing in ks with values in (0,1).
NfwClosedForm(c, ks) ==
  IF IsNaN(c) \/ IsNaN(ks) \/ ks = Zero \/ ~IsFinite(ks) THEN NaN
  ELSE IF FLe(ks, One) THEN R(1, 2) ELSE R(1, 4)

\* ------------------------------------------------------------------------
\* u_nfw_c (lines 18-49).  A call's result is [val, st, log]: the returned
\* double, *status after the call, and the calls/errors it made (history).
\* ------------------------------------------------------------------------
\* line 22: the overdensity the profile uses for the virial radius
ProfileDelta_Fixed200(cos, a) == [val |-> R(200, 1), err |-> NoError]

ProfileDelta(cos, a) == Dv_BryanNorman(cos, a)

\* line 26: if (k==0.)
ProfileIsUnity_Never(k) == FALSE

ProfileIsUnity(k) == ~FNe(k, Zero)

\* lines 34-46: the general k case, with the virial overdensity of line 22
u_nfw_c_general(cos, c, halomass, k, a, st, Delta_v, rv) ==
  LET rs == Div(rv.val, c)
      ks == Mul(k, rs)
  IN  [val |-> NfwClosedForm(c, ks),
       st |-> Raise(st, rv.err),
       log |-> RaiseLog(Delta_v.err, "Dv_BryanNorman")
               \cup {<<"odelta", "r_delta", Delta_v.val>>, <<"closed_form", ks>>}]

\* lines 26-48, after Delta_v was computed
u_nfw_c_branch(cos, c, halomass, k, a, st, Delta_v) ==
  IF ProfileIsUnity(k)
  THEN [val |-> One, st |-> Raise(st, Delta_v.err),
        log |-> RaiseLog(Delta_v.err, "Dv_BryanNorman")]
  ELSE u_nfw_c_general(cos, c, halomass, k, a, Raise(st, Delta_v.err), Delta_v,
                       r_delta(cos, halomass, a, Delta_v.val))

u_nfw_c(cos, c, halomass, k, a, st) ==
  u_nfw_c_branch(cos, c, halomass, k, a, st, ProfileDelta(cos, a))

\* ------------------------------------------------------------------------
\* ccl_halo_concentration (lines 55-105); result [val, st, msg, log]
\* ------------------------------------------------------------------------
\* line 65: if (odelta != 200.)
BhattacharyaMismatch_Unchecked(odelta) == FALSE

BhattacharyaMismatch(odelta) == FNe(odelta, R(200, 1))

ccl_halo_concentration(cos, halomass, a, odelta, label, st, msg) ==
  CASE label = ccl_bhattacharya2011 ->
         IF BhattacharyaMismatch(odelta)
         THEN [val |-> NaN, st |-> CCL_ERROR_CONC_DV, msg |-> MsgBhattacharya,
               log |-> {<<"raise", "ccl_halo_concentration", CCL_ERROR_CONC_DV>>}]
         ELSE LET gz == ccl_growth_factor(cos, a)
                  g0 == ccl_growth_factor(cos, One)
                  delta_c == R(1686, 1000)
                  sig == ccl_sigmaM(cos, halomass, a)
                  nu == Div(delta_c, sig.val)
              IN  [val |-> Mul(Mul(R(9, 1), pow(nu, R(-29, 100))),
                               pow(Div(gz.val, g0.val), R(115, 100))),
                   st |-> Raise(Raise(Raise(st, gz.err), g0.err), sig.err),
                   msg |-> msg,
                   log |-> {<<"fit", label>>}]
    [] label = ccl_duffy2008_virial ->
         LET dv == Dv_BryanNorman(cos, a)
             st1 == Raise(st, dv.err)
             log1 == RaiseLog(dv.err, "Dv_BryanNorman")
         IN  IF FNe(odelta, dv.val)
             THEN [val |-> NaN, st |-> CCL_ERROR_CONC_DV, msg |-> MsgDuffy,
                   log |-> log1 \cup {<<"raise", "ccl_halo_concentration", CCL_ERROR_CONC_DV>>}]
             ELSE LET Mpiv == Div(R(2, 1), cos.h)
                      A == R(785, 100)
                      B == R(-81, 1000)
                      C == R(-71, 100)
                  IN  [val |-> Mul(Mul(A, pow(Div(halomass, Mpiv), B)), pow(a, Neg(C))),
                       st |-> st1, msg |-> msg,
                       log |-> log1 \cup {<<"fit", label>>}]
    [] label = ccl_constant_concentration ->
         [val |-> R(4, 1), st |-> st, msg |-> msg, log |-> {}]
    [] OTHER ->
         \* ccl_raise_exception reports the code; cosmo->status_message is not written
         [val |-> NaN, st |-> CCL_ERROR_HALOCONC, msg |-> msg,
          log |-> {<<"raise", "ccl_halo_concentration", CCL_ERROR_HALOCONC>>}]

\* ------------------------------------------------------------------------
\* window_function (lines 108-134); result [val, st, msg, log, c, u, rhoAt, rho]
\* ------------------------------------------------------------------------
\* line 117: the scale factor handed to ccl_rho_x
RhoScaleFactor_Requested(a) == a

RhoScaleFactor(a) == One

\* line 123: the return value, from the density, the concentration and the
\* profile computed before it
window_function_return(m, odelta, rhoAt, rho_matter, c, u) ==
  [val |-> Div(Mul(m, u.val), rho_matter.val),
   st |-> u.st, msg |-> c.msg,
   log |-> c.log \cup u.log \cup {<<"odelta", "ccl_halo_concentration", odelta>>},
   c |-> c.val, u |-> u.val, ulog |-> u.log, rhoAt |-> rhoAt,
   rho |-> rho_matter.val]

\* line 123: the call of u_nfw_c with the concentration of line 120
window_function_profile(cos, m, k, a, odelta, rhoAt, rho_matter, c) ==
  window_function_return(m, odelta, rhoAt, rho_matter, c,
                         u_nfw_c(cos, c.val, m, k, a, c.st))

\* line 120: the concentration, always the Duffy virial relation
window_function_conc(cos, m, k, a, odelta, st, msg, rhoAt, rho_matter) ==
  window_function_profile(cos, m, k, a, odelta, rhoAt, rho_matter,
    ccl_halo_concentration(cos, m, a, odelta, ccl_duffy2008_virial,
                           Raise(st, rho_matter.err), msg))

window_function(cos, m, k, a, odelta, label, st, msg) ==
  IF label = ccl_nfw
  THEN window_function_conc(cos, m, k, a, odelta, st, msg, RhoScaleFactor(a),
                            ccl_rho_x(cos, RhoScaleFactor(a), TRUE))
  ELSE [val |-> NaN, st |-> CCL_ERROR_HALOWIN, msg |-> msg,
        log |-> {<<"raise", "window_function", CCL_ERROR_HALOWIN>>},
        c |-> NaN, u |-> NaN, ulog |-> {}, rhoAt |-> NaN, rho |-> NaN]

\* ------------------------------------------------------------------------
\* Integrands (lines 144-157, 204-220); result [val, st, msg, log, win, ...]
\* ------------------------------------------------------------------------
\* line 156: return dn_dlogM*pow(wk,2)
one_halo_integrand_return(halomass, Delta_v, wk, dn_dlogM) ==
  [val |-> Mul(dn_dlogM.val, Sq(wk.val)),
   st |-> Raise(wk.st, dn_dlogM.err),
   msg |-> wk.msg,
   log |-> RaiseLog(Delta_v.err, "Dv_BryanNorman") \cup wk.log
           \cup RaiseLog(dn_dlogM.err, "ccl_massfunc")
           \cup {<<"odelta", "window_function", Delta_v.val>>,
                 <<"odelta", "ccl_massfunc", Delta_v.val>>},
   win |-> wk, halomass |-> halomass, Delta_v |-> Delta_v.val]

\* lines 151-154: window function and mass function at the Delta_v of line 148
one_halo_integrand_calls(cos, halomass, k, a, st, msg, Delta_v) ==
  one_halo_integrand_return(halomass, Delta_v,
    window_function(cos, halomass, k, a, Delta_v.val, ccl_nfw,
                    Raise(st, Delta_v.err), msg),
    ccl_massfunc(cos, halomass, a, Delta_v.val))

one_halo_integrand(cos, log10mass, k, a, st, msg) ==
  one_halo_integrand_calls(cos, R(Pow10(log10mass), 1), k, a, st, msg,
                           Dv_BryanNorman(cos, a))

\* line 219: return b*dn_dlogM*wk
two_halo_integrand_return(halomass, Delta_v, wk, dn_dlogM, b) ==
  [val |-> Mul(Mul(b.val, dn_dlogM.val), wk.val),
   st |-> Raise(Raise(wk.st, dn_dlogM.err), b.err),
   msg |-> wk.msg,
   log |-> RaiseLog(Delta_v.err, "Dv_BryanNorman") \cup wk.log
           \cup RaiseLog(dn_dlogM.err, "ccl_massfunc")
           \cup RaiseLog(b.err, "ccl_halo_bias")
           \cup {<<"odelta", "window_function", Delta_v.val>>,
                 <<"odelta", "ccl_massfunc", Delta_v.val>>,
                 <<"odelta", "ccl_halo_bias", Delta_v.val>>},
   win |-> wk, halomass |-> halomass, Delta_v |-> Delta_v.val]

\* lines 211-217: window function, mass function and bias at the Delta_v of
\* line 208
two_halo_integrand_calls(cos, halomass, k, a, st, msg, Delta_v) ==
  two_halo_integrand_return(halomass, Delta_v,
    window_function(cos, halomass, k, a, Delta_v.val, ccl_nfw,
                    Raise(st, Delta_v.err), msg),
    ccl_massfunc(cos, halomass, a, Delta_v.val),
    ccl_halo_bias(cos, halomass, a, Delta_v.val))

two_halo_integrand(cos, log10mass, k, a, st, msg) ==
  two_halo_integrand_calls(cos, R(Pow10(log10mass), 1), k, a, st, msg,
                           Dv_BryanNorman(cos, a))

\* ------------------------------------------------------------------------
\* State
\* ------------------------------------------------------------------------
\* cosmo           the shared ccl_cosmology: parameters and collaborator
\*                 behaviour (read-only here)
\* status_message  cosmo->status_message, the one field this file writes
\* th              per call: arguments, the caller's *status, locals of the
\*                 entry point and of the running integral, position
\* hist            per call: history of what the call evaluated (not program
\*                 state; read by the properties only)
VARIABLES cosmo, status_message, th, hist

vars == <<cosmo, status_message, th, hist>>

Threads == {1, 2}

Entries == {"ccl_onehalo_matter_power", "ccl_twohalo_matter_power",
            "ccl_halomodel_matter_power", "ccl_halo_concentration"}

Cosmologies ==
  [h : {R(7, 10)},
   fault : Faults,
   rhoVaries : BOOLEAN,
   conv : [one : 1 .. Limit + 1, two_k : 1 .. Limit + 1, two_0 : 1 .. Limit + 1]]

\* Number of subdivisions after which qag's error estimate meets the
\* tolerance for this integrand (Limit + 1: not within the limit).
ConvNeeded(cos, kind, k) ==
  IF kind = "one" THEN cos.conv.one
  ELSE IF k = Zero THEN cos.conv.two_0 ELSE cos.conv.two_k

FirstPc(entry) ==
  CASE entry = "ccl_onehalo_matter_power" -> "oh_integral"
    [] entry = "ccl_twohalo_matter_power" -> "th_integral_k"
    [] entry = "ccl_halomodel_matter_power" -> "hm_operands"
    [] entry = "ccl_halo_concentration" -> "conc"

Frame(entry, k, a, label, odelta) ==
  [entry |-> entry, k |-> k, a |-> a, label |-> label, odelta |-> odelta,
   pc |-> FirstPc(entry), status |-> NoError, ret |-> Zero,
   todo |-> IF entry = "ccl_halomodel_matter_power" THEN {"two", "one"} ELSE {},
   P1h |-> Zero, P2h |-> Zero,
   I2h |-> Zero, A |-> Zero, Delta_v |-> Zero, W1 |-> Zero, W2 |-> Zero,
   site |-> "none", ikind |-> "none", ik |-> Zero, ist |-> NoError,
   w |-> "none", result |-> Zero, iter |-> 0]

IdleFrame == [Frame("ccl_onehalo_matter_power", Zero, One, ccl_duffy2008_virial, Zero)
                EXCEPT !.pc = "idle"]

NoWin == [m |-> Zero, k |-> Zero, a |-> Zero, odelta |-> Zero, val |-> Zero,
          c |-> Zero, u |-> Zero, ulog |-> {}, rhoAt |-> Zero, rho |-> Zero,
          n |-> 0]

NoInt == [kind |-> "none", k |-> Zero, evals |-> 0, ok |-> FALSE, w |-> "none",
          val |-> Zero, st |-> NoError, msg |-> MsgNone, n |-> 0]

NoConc == [label |-> "none", odelta |-> Zero, a |-> Zero, val |-> Zero,
           st |-> NoError, log |-> {}, n |-> 0]

History == [log |-> {}, firstFail |-> NoError, late |-> {},
            lastWin |-> NoWin, lastInt |-> NoInt, lastConc |-> NoConc,
            T_k |-> Zero, T_0 |-> Zero]

\* One call of an entry point on a cosmology.
Init ==
  /\ cosmo \in Cosmologies
  /\ status_message = MsgNone
  /\ \E entry \in Entries, k \in Wavenumbers, a \in ScaleFactors,
        label \in ConcLabels, odelta \in Overdensities :
       /\ entry = "ccl_halo_concentration"
            => /\ k = Zero
               /\ cosmo.conv = [one |-> 1, two_k |-> 1, two_0 |-> 1]
               /\ ~cosmo.rhoVaries
               /\ cosmo.fault \in {"none", "dv_nan"}
       /\ entry # "ccl_halo_concentration"
            => /\ label = ccl_duffy2008_virial
               /\ odelta = R(200, 1)
               /\ k = Zero => cosmo.conv.two_k = cosmo.conv.two_0
       /\ th = [t \in Threads |->
                  IF t = 1 THEN Frame(entry, k, a, label, odelta) ELSE IdleFrame]
  /\ hist = [t \in Threads |-> History]

\* ------------------------------------------------------------------------
\* History bookkeeping
\* ------------------------------------------------------------------------
\* An evaluation `op` starts; it is late if a failure is already latched.
Started(h, op) ==
  IF h.firstFail # NoError THEN [h EXCEPT !.late = @ \cup {op}] ELSE h

\* The caller's *status goes from `old` to `new`.
Latched(h, old, new) ==
  IF h.firstFail = NoError /\ new # old THEN [h EXCEPT !.firstFail = new] ELSE h

WinRecord(h, m, k, a, odelta, r) ==
  [m |-> m, k |-> k, a |-> a, odelta |-> odelta, val |-> r.val, c |-> r.c,
   u |-> r.u, ulog |-> r.ulog, rhoAt |-> r.rhoAt, rho |-> r.rho, n |-> 1]

\* ------------------------------------------------------------------------
\* The integrals: one_halo_integral (160-194), two_halo_integral (223-257)
\* ------------------------------------------------------------------------
\* lines 162-176 / 225-239: locals, workspace allocation, parameter bundle;
\* the call of gsl_integration_qag starts.
IntegralBegin(t) ==
  /\ th[t].pc \in {"oh_integral", "th_integral_k", "th_integral_0"}
  /\ th' = [th EXCEPT ![t] =
       [@ EXCEPT !.site = th[t].pc,
                 !.ikind = IF th[t].pc = "oh_integral" THEN "one" ELSE "two",
                 !.ik = IF th[t].pc = "th_integral_0" THEN Zero ELSE th[t].k,
                 !.ist = NoError,
                 !.w = "alloc",
                 !.result = Zero,
                 !.iter = 0,
                 !.pc = "qag"]]
  /\ hist' = [hist EXCEPT ![t] =
       Started(@, IF th[t].pc = "oh_integral" THEN "one_halo_integral"
                  ELSE "two_halo_integral")]
  /\ UNCHANGED <<cosmo, status_message>>

\* gsl_integration_qag subdivides again while fewer than `limit` subdivisions
\* were made, the error estimate is above the tolerance and the partial sums
\* are finite (a NaN or infinite error estimate ends its loop).
QagContinues(iter, needed, result) ==
  iter < Limit /\ iter < needed /\ IsFinite(result)

QagSucceeded(iter, needed, result) ==
  iter >= needed /\ IsFinite(result)

\* The log10-mass of the sample taken in subdivision iter + 1: one per decade
\* of [log10(HM_MMIN), log10(HM_MMAX)).
QagSample(iter) == Log10(HM_MMIN[1]) + iter

\* One subdivision of lines 179 / 242: the integrand callback runs on the next
\* mass sample with p->status = &one_halo_integral_status (a local).
QagEvaluate(t) ==
  /\ th[t].pc = "qag"
  /\ QagContinues(th[t].iter, ConvNeeded(cosmo, th[t].ikind, th[t].ik), th[t].result)
  /\ \E f \in {IF th[t].ikind = "one"
               THEN one_halo_integrand(cosmo, QagSample(th[t].iter), th[t].ik, th[t].a,
                                       th[t].ist, status_message)
               ELSE two_halo_integrand(cosmo, QagSample(th[t].iter), th[t].ik, th[t].a,
                                       th[t].ist, status_message)} :
         /\ th' = [th EXCEPT ![t] =
              [@ EXCEPT !.ist = f.st,
                        !.result = Add(@, f.val),
                        !.iter = @ + 1]]
         /\ status_message' = f.msg
         /\ hist' = [hist EXCEPT ![t] =
              [@ EXCEPT !.log = @ \cup f.log,
                        !.lastWin = WinRecord(@, f.halomass, th[t].ik, th[t].a,
                                              f.Delta_v, f.win)]]
  /\ UNCHANGED cosmo

\* line 182 / 245: gsl_integration_workspace_free(w)
WorkspaceFree_Leak(w) == w

WorkspaceFree(w) == "freed"

\* lines 182-192 / 245-255: qag has returned; free, check, return to the
\* caller's assignment (line 266, 269, 291 or 300).
IntegralReturn(t) ==
  /\ th[t].pc = "qag"
  /\ ~QagContinues(th[t].iter, ConvNeeded(cosmo, th[t].ikind, th[t].ik), th[t].result)
  /\ LET ok == QagSucceeded(th[t].iter, ConvNeeded(cosmo, th[t].ikind, th[t].ik),
                            th[t].result)
         code == IF th[t].ikind = "one" THEN CCL_ERROR_ONE_HALO_INT
                 ELSE CCL_ERROR_TWO_HALO_INT
         text == IF th[t].ikind = "one" THEN MsgOneHalo ELSE MsgTwoHalo
         val == IF ok THEN th[t].result ELSE NaN
         st == IF ok THEN th[t].status ELSE code
         msg == IF ok THEN status_message ELSE text
         wAfter == WorkspaceFree(th[t].w)
         f0 == [th[t] EXCEPT !.w = wAfter, !.status = st]
     IN  /\ th' = [th EXCEPT ![t] =
              CASE th[t].site = "th_integral_k" ->
                     [f0 EXCEPT !.I2h = val, !.pc = "th_integral_0"]
                [] th[t].site = "th_integral_0" ->
                     [f0 EXCEPT !.A = Sub(One, val), !.pc = "th_correction"]
                [] th[t].site = "oh_integral" ->
                     IF th[t].entry = "ccl_onehalo_matter_power"
                     THEN [f0 EXCEPT !.ret = val, !.pc = "done"]
                     ELSE [f0 EXCEPT !.P1h = val, !.pc = "hm_operands"]]
         /\ status_message' = msg
         /\ hist' = [hist EXCEPT ![t] =
              [Latched(@, th[t].status, st) EXCEPT
                 !.log = @ \cup (IF ok THEN {}
                                 ELSE {<<"raise", th[t].ikind, code>>}),
                 !.T_k = IF th[t].site = "th_integral_k" THEN val ELSE @,
                 !.T_0 = IF th[t].site = "th_integral_0" THEN val ELSE @,
                 !.lastInt = [kind |-> th[t].ikind, k |-> th[t].ik,
                              evals |-> th[t].iter, ok |-> ok, w |-> wAfter,
                              val |-> val, st |-> st, msg |-> msg, n |-> 1]]]
  /\ UNCHANGED cosmo

\* ------------------------------------------------------------------------
\* ccl_twohalo_matter_power (263-284)
\* ------------------------------------------------------------------------
\* line 277: A = A*W1/W2
LowMassCorrection_Product(A, W1, W2) == Mul(Mul(A, W1), W2)

LowMassCorrection(A, W1, W2) == Div(Mul(A, W1), W2)

\* line 282: ccl_linear_matter_power(...)*I2h*I2h
TwoHaloPower(plin, I2h) == Mul(Mul(plin, I2h), I2h)

\* lines 272-280: virial overdensity, the two window functions at HM_MMIN,
\* the rescaled correction, the corrected integral.
TwohaloCorrection(t) ==
  /\ th[t].pc = "th_correction"
  /\ \E dv \in {Dv_BryanNorman(cosmo, th[t].a)} :
     \E W1 \in {window_function(cosmo, HM_MMIN, th[t].k, th[t].a, dv.val, ccl_nfw,
                                Raise(th[t].status, dv.err), status_message)} :
     \E W2 \in {window_function(cosmo, HM_MMIN, Zero, th[t].a, dv.val, ccl_nfw,
                                W1.st, W1.msg)} :
     \E A \in {LowMassCorrection(th[t].A, W1.val, W2.val)} :
         /\ th' = [th EXCEPT ![t] =
              [@ EXCEPT !.Delta_v = dv.val,
                        !.W1 = W1.val,
                        !.W2 = W2.val,
                        !.A = A,
                        !.I2h = Add(@, A),
                        !.status = W2.st,
                        !.pc = "th_power"]]
         /\ status_message' = W2.msg
         /\ hist' = [hist EXCEPT ![t] =
              [Latched(Started(@, "window_function"), th[t].status, W2.st) EXCEPT
                 !.log = @ \cup RaiseLog(dv.err, "Dv_BryanNorman")
                           \cup W1.log \cup W2.log
                           \cup {<<"odelta", "window_function", dv.val>>},
                 !.lastWin = WinRecord(@, HM_MMIN, th[t].k, th[t].a, dv.val, W1)]]
  /\ UNCHANGED cosmo

\* line 282: the linear power and the return, to the caller or to line 300.
TwohaloReturn(t) ==
  /\ th[t].pc = "th_power"
  /\ LET plin == ccl_linear_matter_power(cosmo, th[t].k, th[t].a)
         st == Raise(th[t].status, plin.err)
         val == TwoHaloPower(plin.val, th[t].I2h)
     IN  /\ th' = [th EXCEPT ![t] =
              IF th[t].entry = "ccl_twohalo_matter_power"
              THEN [@ EXCEPT !.status = st, !.ret = val, !.pc = "done"]
              ELSE [@ EXCEPT !.status = st, !.P2h = val, !.pc = "hm_operands"]]
         /\ hist' = [hist EXCEPT ![t] =
              Latched(Started(@, "ccl_linear_matter_power"), th[t].status, st)]
  /\ UNCHANGED <<cosmo, status_message>>

\* ------------------------------------------------------------------------
\* ccl_halomodel_matter_power (298-301)
\* ------------------------------------------------------------------------
\* line 300: the operands of + are unsequenced; either call may run first.
HalomodelOperand(t) ==
  /\ th[t].pc = "hm_operands"
  /\ \E x \in th[t].todo :
       th' = [th EXCEPT ![t] =
                [@ EXCEPT !.todo = @ \ {x},
                          !.pc = IF x = "two" THEN "th_integral_k" ELSE "oh_integral"]]
  /\ UNCHANGED <<cosmo, status_message, hist>>

\* line 300: twohalo + onehalo
HalomodelSum_TwoHaloOnly(P2h, P1h) == P2h

HalomodelSum(P2h, P1h) == Add(P2h, P1h)

HalomodelReturn(t) ==
  /\ th[t].pc = "hm_operands"
  /\ th[t].todo = {}
  /\ th' = [th EXCEPT ![t] =
              [@ EXCEPT !.ret = HalomodelSum(th[t].P2h, th[t].P1h), !.pc = "done"]]
  /\ UNCHANGED <<cosmo, status_message, hist>>

\* ------------------------------------------------------------------------
\* ccl_halo_concentration called directly (it is a public routine)
\* ------------------------------------------------------------------------
Concentration(t) ==
  /\ th[t].pc = "conc"
  /\ \E r \in {ccl_halo_concentration(cosmo, HM_MMIN, th[t].a, th[t].odelta,
                                        th[t].label, th[t].status, status_message)} :
         /\ th' = [th EXCEPT ![t] =
              [@ EXCEPT !.status = r.st, !.ret = r.val, !.pc = "done"]]
         /\ status_message' = r.msg
         /\ hist' = [hist EXCEPT ![t] =
              [Latched(@, th[t].status, r.st) EXCEPT
                 !.log = @ \cup r.log,
                 !.lastConc = [label |-> th[t].label, odelta |-> th[t].odelta,
                               a |-> th[t].a, val |-> r.val, st |-> r.st,
                               log |-> r.log, n |-> 1]]]
  /\ UNCHANGED cosmo

\* ------------------------------------------------------------------------
\* Specifications
\* ------------------------------------------------------------------------
Step(t) ==
  \/ IntegralBegin(t)
  \/ QagEvaluate(t)
  \/ IntegralReturn(t)
  \/ TwohaloCorrection(t)
  \/ TwohaloReturn(t)
  \/ HalomodelOperand(t)
  \/ HalomodelReturn(t)
  \/ Concentration(t)

Next == \E t \in Threads : Step(t)

\* One call at a time (section 5: synchronous, single-threaded).
Spec == Init /\ [][Next]_vars

\* Two callers on the same cosmology, each with its own status variable
\* (section 5: calls parallelised by the caller).
InitConc ==
  /\ cosmo \in Cosmologies
  /\ cosmo.fault = "none"
  /\ ~cosmo.rhoVaries
  /\ status_message = MsgNone
  /\ \E e1 \in Entries, e2 \in Entries :
       th = [t \in Threads |->
               Frame(IF t = 1 THEN e1 ELSE e2, R(4, 1), One,
                     ccl_bhattacharya2011, R(178, 1))]
  /\ hist = [t \in Threads |-> History]

ConcSpec == InitConc /\ [][Next]_vars

\* ------------------------------------------------------------------------
\* The value of a mass integral as a function of its arguments: the sum qag
\* forms over the samples it takes, NaN when the integrator reports failure.
\* ------------------------------------------------------------------------
IntegrandValue(cos, kind, i, k, a) ==
  IF kind = "one"
  THEN one_halo_integrand(cos, QagSample(i), k, a, NoError, MsgNone).val
  ELSE two_halo_integrand(cos, QagSample(i), k, a, NoError, MsgNone).val

RECURSIVE QagSum(_, _, _, _, _, _)
QagSum(cos, kind, k, a, i, acc) ==
  IF QagContinues(i, ConvNeeded(cos, kind, k), acc)
  THEN QagSum(cos, kind, k, a, i + 1, Add(acc, IntegrandValue(cos, kind, i, k, a)))
  ELSE IF QagSucceeded(i, ConvNeeded(cos, kind, k), acc) THEN acc ELSE NaN

MassIntegral(cos, kind, k, a) == QagSum(cos, kind, k, a, 0, Zero)

\* W(m, k, a) at the virial overdensity of a.
Window(cos, m, k, a) ==
  window_function(cos, m, k, a, Dv_BryanNorman(cos, a).val, ccl_nfw,
                  NoError, MsgNone).val

PowerEntries == Entries \ {"ccl_halo_concentration"}

Done(t) == th[t].pc = "done"

OdeltaCalls(t) == {e \in hist[t].log : e[1] = "odelta"}

Raised(t) == {e \in hist[t].log : e[1] = "raise"}

\* ------------------------------------------------------------------------
\* Properties
\* ------------------------------------------------------------------------

\* C1: in ccl_twohalo_matter_power and ccl_halomodel_matter_power no
\* sub-integral, window function or linear power is evaluated once a failure
\* is latched, and the status on return is that of the first failure.
C1_FailFast ==
  \A t \in Threads :
    th[t].entry \in {"ccl_twohalo_matter_power", "ccl_halomodel_matter_power"}
      => /\ hist[t].late = {}
         /\ Done(t) => th[t].status = hist[t].firstFail

\* C2: an entry point returns either a finite value with no error raised by
\* any component, or NaN with an error code in the caller's status and the
\* status message of the component that set it.
MessageOf(code) ==
  CASE code = CCL_ERROR_ONE_HALO_INT -> {MsgOneHalo}
    [] code = CCL_ERROR_TWO_HALO_INT -> {MsgTwoHalo}
    [] code = CCL_ERROR_CONC_DV -> {MsgBhattacharya, MsgDuffy}
    [] OTHER -> {MsgNone, MsgOneHalo, MsgTwoHalo, MsgBhattacharya, MsgDuffy}

C2_ValueOrError ==
  \A t \in Threads :
    Done(t) /\ th[t].entry \in PowerEntries
      => \/ /\ IsFinite(th[t].ret)
            /\ th[t].status = NoError
            /\ Raised(t) = {}
         \/ /\ IsNaN(th[t].ret)
            /\ th[t].status # NoError
            /\ status_message \in MessageOf(th[t].status)

\* C3: ccl_halo_concentration returns a number only for a known selector whose
\* overdensity precondition holds; otherwise it evaluates no fit, returns NaN
\* and leaves exactly its own error in status (CONC_DV for a Bhattacharya or
\* Duffy mismatch, HALOCONC for an unknown selector).
ConcPrecondition(cos, label, odelta, a) ==
  CASE label = ccl_bhattacharya2011 -> odelta = R(200, 1)
    [] label = ccl_duffy2008_virial ->
         ~IsNaN(odelta) /\ odelta = Dv_BryanNorman(cos, a).val
    [] label = ccl_constant_concentration -> TRUE
    [] OTHER -> FALSE

ConcError(label) ==
  IF label \in {ccl_bhattacharya2011, ccl_duffy2008_virial}
  THEN CCL_ERROR_CONC_DV ELSE CCL_ERROR_HALOCONC

C3_ConcentrationGuards ==
  \A t \in Threads :
    LET r == hist[t].lastConc
        pre == ConcPrecondition(cosmo, r.label, r.odelta, r.a)
    IN  r.n = 1
          => /\ ~IsNaN(r.val) => pre
             /\ ~pre => /\ IsNaN(r.val)
                        /\ {e \in r.log : e[1] = "fit"} = {}
                        /\ r.st = ConcError(r.label)
                        /\ {e \in r.log : e[1] = "raise" /\ e[2] = "ccl_halo_concentration"}
                             = {<<"raise", "ccl_halo_concentration", ConcError(r.label)>>}

C3_Witness ==
  \E t \in Threads :
    /\ hist[t].lastConc.n = 1
    /\ hist[t].lastConc.label = ccl_bhattacharya2011
    /\ hist[t].lastConc.odelta = R(178, 1)
    /\ th[t].status = CCL_ERROR_CONC_DV
    /\ IsNaN(th[t].ret)

\* C4: the value ccl_halomodel_matter_power returns is the one-halo power plus
\* the two-halo power, each as its own entry point computes it from the same
\* (cosmology, k, a), whichever operand was evaluated first.
SpecI2h(cos, k, a) ==
  Add(MassIntegral(cos, "two", k, a),
      Mul(Sub(One, MassIntegral(cos, "two", Zero, a)),
          Div(Window(cos, HM_MMIN, k, a), Window(cos, HM_MMIN, Zero, a))))

SpecTwoHalo(cos, k, a) ==
  Mul(ccl_linear_matter_power(cos, k, a).val, Sq(SpecI2h(cos, k, a)))

SpecOneHalo(cos, k, a) == MassIntegral(cos, "one", k, a)

C4_SumOfTerms ==
  \A t \in Threads :
    Done(t) /\ th[t].entry = "ccl_halomodel_matter_power"
      => th[t].ret = Add(SpecOneHalo(cosmo, th[t].k, th[t].a),
                         SpecTwoHalo(cosmo, th[t].k, th[t].a))

C4_Witness ==
  \E t \in Threads :
    /\ Done(t) /\ th[t].entry = "ccl_halomodel_matter_power"
    /\ IsFinite(th[t].ret)
    /\ th[t].P1h # Zero /\ th[t].P2h # Zero
    /\ th[t].k # Zero

\* C5: within one call every collaborator that takes an overdensity (virial
\* radius, concentration, window function, mass function, bias) receives the
\* same value.
C5_OneOverdensity ==
  \A t \in Threads :
    \A e1 \in OdeltaCalls(t), e2 \in OdeltaCalls(t) : e1[3] = e2[3]

C5_Witness ==
  \E t \in Threads :
    /\ Done(t)
    /\ {e[2] : e \in OdeltaCalls(t)}
         = {"r_delta", "ccl_halo_concentration", "window_function",
            "ccl_massfunc", "ccl_halo_bias"}

\* C6: an integral evaluates its integrand at most Limit times in one call of
\* the integrator, and returns with its workspace freed and either the
\* converged value, or NaN with the integration-failure status (always so for
\* a mass function that returns infinity); while the integrator runs, every
\* step of the call is one more of those evaluations, so it does return.
IntegralOutcome(t) ==
  LET r == hist[t].lastInt
      code == IF r.kind = "one" THEN CCL_ERROR_ONE_HALO_INT ELSE CCL_ERROR_TWO_HALO_INT
      text == IF r.kind = "one" THEN MsgOneHalo ELSE MsgTwoHalo
  IN  /\ th[t].iter <= Limit
      /\ th[t].pc = "qag" => th[t].w = "alloc"
      /\ r.n = 1
           => /\ r.evals <= Limit
              /\ r.w = "freed"
              /\ \/ r.ok /\ IsFinite(r.val)
                       /\ r.val = MassIntegral(cosmo, r.kind, r.k, th[t].a)
                 \/ ~r.ok /\ IsNaN(r.val) /\ r.st = code /\ r.msg = text
              /\ cosmo.fault = "mf_inf" => ~r.ok

C6_BoundedIntegration ==
  /\ [](\A t \in Threads : IntegralOutcome(t))
  /\ [][\A t \in Threads :
          th[t].pc = "qag" /\ th'[t].pc = "qag" /\ th'[t] # th[t]
            => th'[t].iter = th[t].iter + 1]_vars

C6_Witness ==
  \E t \in Threads :
    /\ hist[t].lastInt.n = 1
    /\ ~hist[t].lastInt.ok
    /\ hist[t].lastInt.evals = Limit
    /\ hist[t].lastInt.w = "freed"
    /\ cosmo.fault = "none"

\* C7: with two calls running on one cosmology, the error outcome a call
\* returns (status code and status message) is its own.
C7_IsolatedOutcome ==
  \A t \in Threads :
    Done(t) /\ th[t].status \in {CCL_ERROR_ONE_HALO_INT, CCL_ERROR_TWO_HALO_INT,
                                 CCL_ERROR_CONC_DV}
      => status_message \in MessageOf(th[t].status)

\* C8 (as stated): window_function returns m*U/rho with the mean matter
\* density taken at the requested scale factor a.
C8_DensityAtRequestedA ==
  \A t \in Threads :
    LET r == hist[t].lastWin
    IN  r.n = 1
          => /\ r.rhoAt = r.a
             /\ r.val = Div(Mul(r.m, r.u), ccl_rho_x(cosmo, r.a, TRUE).val)

\* C8 (amended): window_function returns m*U(c,m,k,a)/rho, c the Duffy virial
\* concentration at (m, a), with the comoving mean matter density taken at
\* scale factor 1 whatever the requested a.
C8_DensityAtUnity ==
  \A t \in Threads :
    LET r == hist[t].lastWin
    IN  r.n = 1
          => /\ r.rhoAt = One
             /\ r.val = Div(Mul(r.m, r.u), ccl_rho_x(cosmo, One, TRUE).val)
             /\ r.c = ccl_halo_concentration(cosmo, r.m, r.a, r.odelta,
                                             ccl_duffy2008_virial, NoError, MsgNone).val
             /\ r.u = u_nfw_c(cosmo, r.c, r.m, r.k, r.a, NoError).val

C8_Witness ==
  \E t \in Threads :
    /\ hist[t].lastWin.n = 1
    /\ hist[t].lastWin.a = R(1, 2)
    /\ hist[t].lastWin.k # Zero
    /\ IsFinite(hist[t].lastWin.val)
    /\ cosmo.rhoVaries

\* C9: ccl_twohalo_matter_power returns P_linear(k,a) * I2h^2 with
\* I2h = T(k) + (1 - T(0)) * W(M_min,k,a)/W(M_min,0,a), T the mass integral of
\* bias * dn/dlogM * W; at k = 0, when the integral converges, I2h = 1 and the
\* result is P_linear(0,a).
C9_TwoHaloFormula ==
  \A t \in Threads :
    Done(t) /\ th[t].entry = "ccl_twohalo_matter_power"
      => /\ th[t].ret = SpecTwoHalo(cosmo, th[t].k, th[t].a)
         /\ hist[t].T_k = MassIntegral(cosmo, "two", th[t].k, th[t].a)
         /\ th[t].k = Zero /\ IsFinite(hist[t].T_0)
              => /\ th[t].I2h = One
                 /\ th[t].ret = ccl_linear_matter_power(cosmo, Zero, th[t].a).val

C9_Witness ==
  \E t \in Threads :
    /\ Done(t) /\ th[t].entry = "ccl_twohalo_matter_power"
    /\ th[t].k = Zero
    /\ IsFinite(hist[t].T_0) /\ hist[t].T_0 # One
    /\ th[t].ret = ccl_linear_matter_power(cosmo, Zero, th[t].a).val

\* C10: at k = 0 u_nfw_c returns exactly 1 and evaluates neither the virial
\* radius nor the closed form.
C10_UnityAtZero ==
  \A t \in Threads :
    LET r == hist[t].lastWin
    IN  r.n = 1 /\ r.k = Zero
          => /\ r.u = One
             /\ {e \in r.ulog : e[1] \in {"odelta", "closed_form"}} = {}

C10_Witness ==
  \E t \in Threads :
    /\ hist[t].lastWin.n = 1
    /\ hist[t].lastWin.k = Zero
    /\ IsFinite(hist[t].lastWin.c) /\ hist[t].lastWin.c[1] > 0
    /\ hist[t].lastWin.m # HM_MMIN
    /\ hist[t].lastWin.u = One

====
